---- MODULE Spec2Model ----
(***************************************************************************)
(* react-simple-slots: the slot registry kept by SlotProvider, the Slot    *)
(* writer, the TemplateSlot resolver and the useSlotContext lookup.        *)
(*                                                                         *)
(* JavaScript values are records [t, f, id, env]: t is the typeof of the   *)
(* value, f its text (a string's characters, a function's body), id what   *)
(* tells a closure created while the program runs from every other closure *)
(* still referenced (0 for a value that exists before it starts) and env   *)
(* the variable a closure captured.  Two values are reference-identical    *)
(* (===) exactly when the records are equal.                               *)
(***************************************************************************)
EXTENDS Integers, Sequences, FiniteSets, TLC

\* Mapping instances created in one run.
MaxMaps == 4

\* Capability calls a consumer makes in one batch.
MaxQueue == 2

\* Capability calls in one act() callback.
MaxBatch == 3

Val(t, f, id, env) == [t |-> t, f |-> f, id |-> id, env |-> env]

Undefined == Val("undefined", "undefined", 0, "")

Null == Val("object", "null", 0, "")

Str(s) == Val("string", s, 0, "")

Fn(body) == Val("function", body, 0, "")

Throw(kind, message) == Val("throw", message, 0, kind)

IsThrow(v) == "t" \in DOMAIN v /\ v.t = "throw"

\* <></> : the empty fragment a Slot renders.
EmptyFragment == Val("object", "<></>", 0, "")

ConfigurationError == Throw("Error", "useSlotContext must be used within a SlotProvider")

\* Slot names the host uses; "toString" is also a property every object
\* literal inherits from Object.prototype.
Names == {"main", "toString"}

\* The properties an object literal inherits.
ObjectPrototype == [k \in {"toString"} |-> Fn("Object.prototype.toString")]

\* A transform the host passes as children: x => "[" + x + "]".
Bracket == Fn("bracket")

\* Content a consumer passes to setSlotValue.
Contents == {Undefined, Null, Str("B")}

\* Children the host gives a Slot: omitted, content or a transform.
SlotPropChildren == {Undefined, Str("B"), Bracket}

\* Default content the host gives a TemplateSlot.
Defaults == {Undefined, Str("A")}

\* SlotChildren = ReactNode | SlotRenderPropFunction
SlotChildren == Contents \cup {Bracket}

\* The values the calls of one act() callback are given.
BatchChildren == {Undefined, Str("B"), Str("C")}

\* {} : an object literal with no own property.
EmptyObject == [k \in {} |-> Undefined]

\* obj[name] : the own property, else the inherited one, else undefined.
JSGet(obj, name) ==
  IF name \in DOMAIN obj THEN obj[name]
  ELSE IF name \in DOMAIN ObjectPrototype THEN ObjectPrototype[name]
  ELSE Undefined

\* name in obj : own or inherited.
JSIn(name, obj) == name \in DOMAIN obj \/ name \in DOMAIN ObjectPrototype

\* The body of a host function applied to an argument.
CallBody(body, arg) ==
  IF body = "bracket" THEN Str("[" \o arg.f \o "]")
  ELSE Throw("TypeError", body \o " is not a function")

\* fn(arg): a call of a value that is no function throws a TypeError; the
\* closure a Slot stores calls the children it captured.
Call(fn, what, arg) ==
  IF fn.t # "function" THEN Throw("TypeError", what \o " is not a function")
  ELSE IF fn.f = "(defaultChildren) => children(defaultChildren)"
    THEN CallBody(fn.env, arg)
  ELSE CallBody(fn.f, arg)

isRenderProp(value) == value.t = "function"

\* !v is false
Truthy(v) == v.t # "undefined" /\ v # Null /\ v # Str("")

\* obj.key of an object literal with the given fields.
Prop(obj, key) == IF key \in DOMAIN obj THEN obj[key] ELSE Undefined

VARIABLES
  scope,       \* "active" while the SlotProvider is mounted, else "crashed"
  slotValues,  \* the SlotProvider's state: own properties of the mapping
  mapId,       \* the identity of the mapping instance held in the state:
               \* the number of mapping instances created before it
  phase,       \* "idle", "batch" (a consumer is calling the capabilities) or
               \* "flush" (React is applying the pending updates)
  queue,       \* state updates enqueued by setSlotValues, not yet applied
  wr,          \* the Slot writers of the tree: props and memoized content
  other,       \* a second SlotProvider instance: its state, when mounted
  hist         \* what the last step did (read by the properties only)

vars == <<scope, slotValues, mapId, phase, queue, wr, other, hist>>

Writers == {"w1", "w2"}

\* The order in which the tree holds the writers (effects run in it).
WriterOrder == <<"w1", "w2">>

NoWriter == [mounted |-> FALSE, name |-> "", children |-> Undefined, memo |-> Undefined]

\* No second SlotProvider is mounted.
NoProvider == [active |-> FALSE, slotValues |-> EmptyObject, mapId |-> 0]

NoHist ==
  [act |-> "init", comp |-> "", out |-> Undefined, torn |-> {},
   op |-> "", name |-> "", value |-> Undefined, same |-> FALSE, had |-> FALSE,
   batch |-> <<>>, wrote |-> {}, moved |-> {}, path |-> <<>>]

\* Variants of the updater of setSlotValue: assigning into prev and returning
\* it; keeping an entry the name already has; dropping the entries of other
\* names; copying even when the value is the one already stored.
setSlotValueUpdaterInPlace(prev, name, children) ==
  [same |-> TRUE,
   obj |-> [k \in DOMAIN prev \cup {name} |-> IF k = name THEN children ELSE prev[k]]]

setSlotValueUpdaterKeepFirst(prev, name, children) ==
  IF name \in DOMAIN prev THEN [same |-> TRUE, obj |-> prev]
  ELSE [same |-> FALSE,
        obj |-> [k \in DOMAIN prev \cup {name} |-> IF k = name THEN children ELSE prev[k]]]

setSlotValueUpdaterNoSpread(prev, name, children) ==
  IF JSGet(prev, name) = children THEN [same |-> TRUE, obj |-> prev]
  ELSE [same |-> FALSE, obj |-> [k \in {name} |-> children]]

setSlotValueUpdaterNoShortCircuit(prev, name, children) ==
  [same |-> FALSE,
   obj |-> [k \in DOMAIN prev \cup {name} |-> IF k = name THEN children ELSE prev[k]]]

\* (prev) => prev[name] === children ? prev : {...prev, [name]: children}
setSlotValueUpdater(prev, name, children) ==
  IF JSGet(prev, name) = children THEN [same |-> TRUE, obj |-> prev]
  ELSE [same |-> FALSE,
        obj |-> [k \in DOMAIN prev \cup {name} |-> IF k = name THEN children ELSE prev[k]]]

\* removeSlotValue blanking the entry instead of leaving the key out.
removeSlotValueUpdaterBlank(prev, name) ==
  IF ~JSIn(name, prev) THEN [same |-> TRUE, obj |-> prev]
  ELSE [same |-> FALSE,
        obj |-> [k \in DOMAIN prev \cup {name} |-> IF k = name THEN Undefined ELSE prev[k]]]

\* (prev) => !(name in prev) ? prev : rest, with { [name]: _, ...rest } = prev
removeSlotValueUpdater(prev, name) ==
  IF ~JSIn(name, prev) THEN [same |-> TRUE, obj |-> prev]
  ELSE [same |-> FALSE, obj |-> [k \in DOMAIN prev \ {name} |-> prev[k]]]

SetUpdate(name, children) == [op |-> "set", name |-> name, value |-> children]

RemoveUpdate(name) == [op |-> "remove", name |-> name, value |-> Undefined]

Init ==
  /\ scope = "active"
  /\ slotValues = EmptyObject
  /\ mapId = 0
  /\ phase = "idle"
  /\ queue = <<>>
  /\ wr = [w \in Writers |-> NoWriter]
  /\ other = NoProvider
  /\ hist = NoHist

\* A consumer of the context calls setSlotValue(name, children).
setSlotValue(name, children) ==
  /\ scope = "active"
  /\ phase \in {"idle", "batch"}
  /\ Len(queue) < MaxQueue
  /\ mapId + Len(queue) < MaxMaps
  /\ queue' = Append(queue, SetUpdate(name, children))
  /\ phase' = "batch"
  /\ hist' = [NoHist EXCEPT !.act = "call", !.comp = "setSlotValue"]
  /\ UNCHANGED <<scope, slotValues, mapId, wr, other>>

\* A consumer of the context calls removeSlotValue(name).
removeSlotValue(name) ==
  /\ scope = "active"
  /\ phase \in {"idle", "batch"}
  /\ Len(queue) < MaxQueue
  /\ mapId + Len(queue) < MaxMaps
  /\ queue' = Append(queue, RemoveUpdate(name))
  /\ phase' = "batch"
  /\ hist' = [NoHist EXCEPT !.act = "call", !.comp = "removeSlotValue"]
  /\ UNCHANGED <<scope, slotValues, mapId, wr, other>>

\* React applies the oldest pending update to the state of the provider; the
\* updates of one batch or commit are applied together, before the host or a
\* render runs again.
ProcessUpdate ==
  /\ scope = "active"
  /\ queue # <<>>
  /\ LET u == Head(queue)
         r == IF u.op = "set" THEN setSlotValueUpdater(slotValues, u.name, u.value)
              ELSE removeSlotValueUpdater(slotValues, u.name)
     IN /\ slotValues' = r.obj
        /\ mapId' = IF r.same THEN mapId ELSE mapId + 1
        /\ hist' = [hist EXCEPT !.op = u.op, !.name = u.name, !.value = u.value,
                                !.same = r.same, !.had = u.name \in DOMAIN slotValues]
  /\ queue' = Tail(queue)
  /\ phase' = IF Tail(queue) = <<>> THEN "idle" ELSE "flush"
  /\ UNCHANGED <<scope, wr, other>>

\* The calls an act() callback can make on the capability object.
BatchCalls ==
  {SetUpdate(n, c) : n \in Names, c \in BatchChildren} \cup {RemoveUpdate(n) : n \in Names}

RECURSIVE Batches(_)
Batches(len) ==
  IF len = 0 THEN {<<>>}
  ELSE LET shorter == Batches(len - 1)
       IN shorter \cup {Append(b, c) : b \in {x \in shorter : Len(x) = len - 1}, c \in BatchCalls}

\* act(() => { ...calls... }): the callback queues its calls in order and
\* React applies them when the callback returns.
act(calls) ==
  /\ scope = "active"
  /\ phase = "idle"
  /\ calls # <<>>
  /\ mapId + Len(calls) <= MaxMaps
  /\ queue' = calls
  /\ phase' = "flush"
  /\ hist' = [NoHist EXCEPT !.act = "batch", !.comp = "act", !.batch = calls]
  /\ UNCHANGED <<scope, slotValues, mapId, wr, other>>

\* The SlotProvider instances: the one of the tree and a second one.
Providers == {"main", "other"}

\* The providers around a component, outermost first: one provider alone,
\* or one nested in the other.
Paths == {<<"main">>, <<"other">>, <<"main", "other">>, <<"other", "main">>}

\* useContext(SlotContext) reads the value of the nearest provider above.
Nearest(path) == path[Len(path)]

StateOwnerShared(provider) == "main"

\* useState({}) inside SlotProvider: each provider instance holds its own
\* state, and the setSlotValues its capabilities close over writes that state.
StateOwner(provider) == provider

\* A second SlotProvider is mounted, beside, around or inside the first.
MountProvider ==
  /\ scope = "active"
  /\ phase = "idle"
  /\ ~other.active
  /\ other' = [active |-> TRUE, slotValues |-> EmptyObject, mapId |-> 0]
  /\ hist' = [NoHist EXCEPT !.act = "mount", !.comp = "SlotProvider"]
  /\ UNCHANGED <<scope, slotValues, mapId, phase, queue, wr>>

\* The second SlotProvider is unmounted and its state discarded.
UnmountProvider ==
  /\ scope = "active"
  /\ phase = "idle"
  /\ other.active
  /\ other' = NoProvider
  /\ hist' = [NoHist EXCEPT !.act = "unmount", !.comp = "SlotProvider"]
  /\ UNCHANGED <<scope, slotValues, mapId, phase, queue, wr>>

\* A Slot effect or another consumer under the providers of `path` calls
\* setSlotValue or removeSlotValue of the context value it reads; the update
\* goes to the state of the provider that built that value.
ScopedUpdate(path, u) ==
  /\ scope = "active"
  /\ phase = "idle"
  /\ "other" \in {path[i] : i \in 1..Len(path)} => other.active
  /\ hist' = [NoHist EXCEPT !.act = "scoped", !.comp = Nearest(path), !.path = path,
                            !.batch = <<u>>]
  /\ IF StateOwner(Nearest(path)) = "main"
       THEN /\ mapId < MaxMaps
            /\ queue' = <<u>>
            /\ phase' = "flush"
            /\ UNCHANGED <<scope, slotValues, mapId, wr, other>>
       ELSE /\ other.mapId < MaxMaps
            /\ LET r == IF u.op = "set"
                          THEN setSlotValueUpdater(other.slotValues, u.name, u.value)
                        ELSE removeSlotValueUpdater(other.slotValues, u.name)
               IN other' = [other EXCEPT !.slotValues = r.obj,
                                         !.mapId = IF r.same THEN @ ELSE @ + 1]
            /\ UNCHANGED <<scope, slotValues, mapId, phase, queue, wr>>

\* The value SlotProvider passes to SlotContext.Provider.
ContextValue ==
  [slotValues |-> slotValues,
   setSlotValue |-> Fn("setSlotValue"),
   removeSlotValue |-> Fn("removeSlotValue")]

\* The object literal SlotProvider builds for SlotContext.Provider when it
\* renders with the mapping instance mapId: one new object for all consumers.
ProviderValue == [value |-> ContextValue, id |-> mapId]

\* useContext(SlotContext) in the consumer that names `name`: React renders
\* the consumer again when the provider's value is another object; the
\* consumer's name plays no part in the subscription.
ConsumerRerenders(name) == ProviderValue' # ProviderValue

\* createContext(undefined): what useContext returns outside a provider.
DefaultContext == Undefined

useSlotContextNoCheck(context) == context

\* useContext(SlotContext), throwing when there is no provider.
useSlotContext(context) ==
  IF context = Undefined THEN ConfigurationError ELSE context

\* const { ... } = value
Destructure(value) ==
  IF value = Undefined \/ value = Null
    THEN Throw("TypeError", "Cannot destructure " \o value.f)
  ELSE value

\* The children a Slot stores: a function is wrapped in a closure, created
\* when useMemo runs its factory; anything else is stored as it is.
memoizedContent(children, id) ==
  IF isRenderProp(children)
    THEN Val("function", "(defaultChildren) => children(defaultChildren)", id, children.f)
  ELSE children

\* useMemo given no dependency list: the factory runs at every render.
useMemoRunsAlways(old, props) == TRUE

\* useMemo(factory, [children]): the factory runs on mount and when children
\* is another reference than at the previous render.
useMemoRuns(old, props) == ~old.mounted \/ old.children # props.children

\* The ids of the closures still referenced by the writers or the mapping.
ClosureIds(writers, obj) ==
  {writers[w].memo.id : w \in DOMAIN writers} \cup {obj[k].id : k \in DOMAIN obj}

\* An id no referenced closure has.
FreshId(used) == CHOOSE i \in 1..(Cardinality(used) + 1) : i \notin used

\* Slot whose layout effect has no dependency list: it runs after every render.
SlotEffectNoDeps(context, old, props, nextId) ==
  LET ctx == Destructure(useSlotContext(context))
      memo == IF ~props.mounted THEN Undefined
              ELSE IF useMemoRuns(old, props) THEN memoizedContent(props.children, nextId)
              ELSE old.memo
      changed == props.mounted
  IN IF props.mounted /\ IsThrow(ctx)
       THEN [out |-> ctx, state |-> old, cleanup |-> <<>>, effect |-> <<>>, torn |-> {}]
     ELSE
       [out |-> EmptyFragment,
        state |-> [mounted |-> props.mounted, name |-> props.name,
                   children |-> props.children, memo |-> memo],
        cleanup |-> IF old.mounted /\ (~props.mounted \/ changed)
                      THEN <<RemoveUpdate(old.name)>> ELSE <<>>,
        effect |-> IF changed THEN <<SetUpdate(props.name, memo)>> ELSE <<>>,
        torn |-> IF old.mounted /\ ~props.mounted THEN {old.name} ELSE {}]

\* Slot whose cleanup reads the name of the current render, not the name of
\* the render that ran the effect.
SlotCleanupNewName(context, old, props, nextId) ==
  LET ctx == Destructure(useSlotContext(context))
      memo == IF ~props.mounted THEN Undefined
              ELSE IF useMemoRuns(old, props) THEN memoizedContent(props.children, nextId)
              ELSE old.memo
      changed == props.mounted /\ (~old.mounted \/ old.name # props.name \/ old.memo # memo)
  IN IF props.mounted /\ IsThrow(ctx)
       THEN [out |-> ctx, state |-> old, cleanup |-> <<>>, effect |-> <<>>, torn |-> {}]
     ELSE
       [out |-> EmptyFragment,
        state |-> [mounted |-> props.mounted, name |-> props.name,
                   children |-> props.children, memo |-> memo],
        cleanup |-> IF old.mounted /\ (~props.mounted \/ changed)
                      THEN <<RemoveUpdate(IF props.mounted THEN props.name ELSE old.name)>> ELSE <<>>,
        effect |-> IF changed THEN <<SetUpdate(props.name, memo)>> ELSE <<>>,
        torn |-> IF old.mounted /\ ~props.mounted THEN {old.name} ELSE {}]

\* One render of a Slot: the writer's new state, its effect cleanup (run when
\* the deps changed or the Slot unmounts) and its effect (run on mount and
\* when [name, memoizedContent] changed).
Slot(context, old, props, nextId) ==
  LET ctx == Destructure(useSlotContext(context))
      memo == IF ~props.mounted THEN Undefined
              ELSE IF useMemoRuns(old, props) THEN memoizedContent(props.children, nextId)
              ELSE old.memo
      changed == props.mounted /\ (~old.mounted \/ old.name # props.name \/ old.memo # memo)
  IN IF props.mounted /\ IsThrow(ctx)
       THEN [out |-> ctx, state |-> old, cleanup |-> <<>>, effect |-> <<>>, torn |-> {}]
     ELSE
       [out |-> EmptyFragment,
        state |-> [mounted |-> props.mounted, name |-> props.name,
                   children |-> props.children, memo |-> memo],
        cleanup |-> IF old.mounted /\ (~props.mounted \/ changed)
                      THEN <<RemoveUpdate(old.name)>> ELSE <<>>,
        effect |-> IF changed THEN <<SetUpdate(props.name, memo)>> ELSE <<>>,
        torn |-> IF old.mounted /\ ~props.mounted THEN {old.name} ELSE {}]

\* One render of a TemplateSlot: what it returns or throws.
TemplateSlot(context, name, children) ==
  LET ctx == Destructure(useSlotContext(context))
  IN IF IsThrow(ctx) THEN ctx
     ELSE LET slotContent == JSGet(Prop(ctx, "slotValues"), name)
              has == Call(Prop(ctx, "hasSlot"), "hasSlot", Str(name))
          IN IF IsThrow(has) THEN has
             ELSE IF ~Truthy(has) THEN children
             ELSE IF isRenderProp(slotContent)
               THEN Call(slotContent, "slotContent", children)
             ELSE slotContent

\* The Slots of the tree rendered in tree order, from writer i on.
RECURSIVE RenderSlots(_, _, _)
RenderSlots(i, tree, acc) ==
  IF i > Len(WriterOrder) THEN acc
  ELSE LET w == WriterOrder[i]
           used == ClosureIds(wr, slotValues) \cup ClosureIds(acc.wr, EmptyObject)
           r == Slot(ContextValue, wr[w], tree[w], FreshId(used))
       IN RenderSlots(i + 1, tree,
            [wr |-> [acc.wr EXCEPT ![w] = r.state],
             cleanups |-> acc.cleanups \o r.cleanup,
             effects |-> acc.effects \o r.effect,
             torn |-> acc.torn \cup r.torn,
             wrote |-> acc.wrote \cup (IF r.effect # <<>> THEN {w} ELSE {}),
             moved |-> acc.moved \cup
                       (IF wr[w].mounted /\ tree[w].mounted /\ wr[w].name # tree[w].name
                           /\ wr[w].children = tree[w].children
                          THEN {<<w, wr[w].name>>} ELSE {})])

NoProps == [mounted |-> FALSE, name |-> "", children |-> Undefined]

SlotProps ==
  {NoProps} \cup
  {[mounted |-> TRUE, name |-> n, children |-> c] : n \in Names, c \in SlotPropChildren}

\* The host renders the tree with the given Slots; the commit runs the
\* cleanups of all changed or removed Slots, then the effects.
RenderTree(tree) ==
  /\ scope = "active"
  /\ phase = "idle"
  /\ LET r == RenderSlots(1, tree,
                [wr |-> wr, cleanups |-> <<>>, effects |-> <<>>, torn |-> {},
                 wrote |-> {}, moved |-> {}])
         q == r.cleanups \o r.effects
     IN /\ mapId + Len(q) <= MaxMaps
        /\ wr' = r.wr
        /\ queue' = q
        /\ phase' = IF q = <<>> THEN "idle" ELSE "flush"
        /\ hist' = [NoHist EXCEPT !.act = "render", !.comp = "Slot", !.torn = r.torn,
                                  !.wrote = r.wrote, !.moved = r.moved,
                                  !.batch = q]
  /\ UNCHANGED <<scope, slotValues, mapId, other>>

\* The props the mounted Slots were last rendered with.
CurrentTree ==
  [w \in Writers |->
     [mounted |-> wr[w].mounted, name |-> wr[w].name, children |-> wr[w].children]]

\* After the provider's state changed React renders the consumers of the
\* context again: every mounted Slot, with the props it has; the commit of
\* that pass runs the cleanups and effects whose dependencies changed.
RerenderConsumers ==
  /\ scope = "active"
  /\ phase = "idle"
  /\ LET r == RenderSlots(1, CurrentTree,
                [wr |-> wr, cleanups |-> <<>>, effects |-> <<>>, torn |-> {},
                 wrote |-> {}, moved |-> {}])
         q == r.cleanups \o r.effects
     IN /\ mapId + Len(q) <= MaxMaps
        /\ wr' = r.wr
        /\ queue' = q
        /\ phase' = IF q = <<>> THEN "idle" ELSE "flush"
        /\ hist' = [NoHist EXCEPT !.act = "rerender", !.comp = "Slot", !.torn = r.torn,
                                  !.wrote = r.wrote, !.moved = r.moved,
                                  !.batch = q]
  /\ UNCHANGED <<scope, slotValues, mapId, other>>

\* The host renders a tree that holds a TemplateSlot under the provider.  An
\* error thrown while rendering is caught by no boundary: React unmounts the
\* whole root, and the provider's state is discarded with it.
RenderTemplateSlot(name, children) ==
  /\ scope = "active"
  /\ phase = "idle"
  /\ LET out == TemplateSlot(ContextValue, name, children)
     IN /\ hist' = [NoHist EXCEPT !.act = "resolve", !.comp = "TemplateSlot",
                                  !.name = name, !.value = children, !.out = out,
                                  !.had = name \in DOMAIN slotValues]
        /\ IF IsThrow(out)
             THEN /\ scope' = "crashed"
                  /\ wr' = [w \in Writers |-> NoWriter]
                  /\ slotValues' = EmptyObject
             ELSE UNCHANGED <<scope, wr, slotValues>>
  /\ UNCHANGED <<mapId, phase, queue, other>>

\* What a component rendered with the given context returns or throws.
RenderOutput(comp, context, name, children) ==
  IF comp = "Slot"
    THEN Slot(context, NoWriter,
              [mounted |-> TRUE, name |-> name, children |-> children], 0).out
  ELSE IF comp = "TemplateSlot" THEN TemplateSlot(context, name, children)
  ELSE useSlotContext(context)

\* The host renders a Slot, a TemplateSlot or a component that calls
\* useSlotContext in a root of its own, under no SlotProvider.
RenderOutsideProvider(comp, name, children) ==
  /\ phase = "idle"
  /\ hist' = [NoHist EXCEPT !.act = "outside", !.comp = comp,
                            !.out = RenderOutput(comp, DefaultContext, name, children)]
  /\ UNCHANGED <<scope, slotValues, mapId, phase, queue, wr, other>>

Next ==
  \/ \E name \in Names, children \in SlotChildren : setSlotValue(name, children)
  \/ \E name \in Names : removeSlotValue(name)
  \/ ProcessUpdate
  \/ \E tree \in [Writers -> SlotProps] : RenderTree(tree)
  \/ \E name \in Names, children \in Defaults : RenderTemplateSlot(name, children)
  \/ \E comp \in {"Slot", "TemplateSlot", "useSlotContext"},
        name \in Names, children \in Defaults :
       RenderOutsideProvider(comp, name, children)

Spec == Init /\ [][Next]_vars

\* A tree of Slots and TemplateSlots under the provider, with no other
\* consumer of the context: the registry is written by Slot effects only.
NextTree ==
  \/ ProcessUpdate
  \/ \E tree \in [Writers -> SlotProps] : RenderTree(tree)
  \/ \E name \in Names, children \in Defaults : RenderTemplateSlot(name, children)

SpecTree == Init /\ [][NextTree]_vars

\* A consumer of useSlotContext that calls the capabilities in act() batches.
NextBatch ==
  \/ \E calls \in Batches(MaxBatch) : act(calls)
  \/ ProcessUpdate

SpecBatch == Init /\ [][NextBatch]_vars

\* Two SlotProvider instances and consumers under either or both.
NextScopes ==
  \/ MountProvider
  \/ UnmountProvider
  \/ \E path \in Paths, u \in BatchCalls : ScopedUpdate(path, u)
  \/ ProcessUpdate

SpecScopes == Init /\ [][NextScopes]_vars

\* The tree of Slots and TemplateSlots with the passes React runs by itself.
\* React applies the updates queued by a commit synchronously, so applying
\* them is weakly fair; nothing obliges the host to render again, and no
\* property needs the pass over the consumers to be taken.
NextQuiesce ==
  \/ ProcessUpdate
  \/ RerenderConsumers
  \/ \E tree \in [Writers -> SlotProps] : RenderTree(tree)
  \/ \E name \in Names, children \in Defaults : RenderTemplateSlot(name, children)

SpecQuiesce == Init /\ [][NextQuiesce]_vars /\ WF_vars(ProcessUpdate)

-----------------------------------------------------------------------------
(* Properties *)

\* A committed state: the provider is mounted and no update is pending.
Committed == scope = "active" /\ phase = "idle"

\* React is applying the oldest pending update in this step.
Applying == queue # <<>> /\ queue' = Tail(queue)

\* C1 (Unset-default): in every committed state of the registry, a
\* TemplateSlot for a name with no entry, rendered under the provider with
\* default content d, emits exactly d.
C1_UnsetDefault ==
  Committed =>
    \A n \in Names, d \in Defaults :
      n \notin DOMAIN slotValues => TemplateSlot(ContextValue, n, d) = d

\* C2 (Override): while the registry holds an entry n -> v with v no
\* function, a TemplateSlot for n emits exactly v for every default content,
\* also when v is null or undefined.
C2_Override ==
  Committed =>
    \A n \in DOMAIN slotValues, d \in Defaults :
      ~isRenderProp(slotValues[n]) => TemplateSlot(ContextValue, n, d) = slotValues[n]

\* C3 (Transform): while the entry of n is the closure a Slot stored for its
\* function children f, that closure returns what f returns, and a
\* TemplateSlot for n with default content d emits f(d).
C3_Transform ==
  Committed =>
    \A w \in Writers, d \in Defaults :
      (/\ wr[w].mounted
       /\ isRenderProp(wr[w].children)
       /\ JSGet(slotValues, wr[w].name) = wr[w].memo)
      => /\ Call(wr[w].memo, "slotContent", d) = Call(wr[w].children, "children", d)
         /\ TemplateSlot(ContextValue, wr[w].name, d) = Call(wr[w].children, "children", d)

\* C4: once set(n, v) is committed the registry has an entry for n and its
\* value is v, for every v (null, undefined and functions included); once
\* remove(n) is committed the registry has no entry for n.
C4_SetThenHas ==
  Committed =>
    /\ hist.op = "set" =>
         hist.name \in DOMAIN slotValues /\ slotValues[hist.name] = hist.value
    /\ hist.op = "remove" => hist.name \notin DOMAIN slotValues

\* C5: while a Slot with its children omitted is mounted, the registry has an
\* entry for its name and a TemplateSlot for that name emits the empty
\* content, not its default.
C5_OmittedContentRegisters ==
  Committed =>
    \A w \in Writers :
      (wr[w].mounted /\ wr[w].children = Undefined)
      => /\ wr[w].name \in DOMAIN slotValues
         /\ \A d \in Defaults : TemplateSlot(ContextValue, wr[w].name, d) = Undefined

\* C6 (Identity short-circuit): applying set(n, v) while the entry of n is
\* reference-identical to v leaves the mapping instance the very same object.
C6_IdentityShortCircuit ==
  [][(/\ Applying
      /\ Head(queue).op = "set"
      /\ Head(queue).name \in DOMAIN slotValues
      /\ slotValues[Head(queue).name] = Head(queue).value)
     => (mapId' = mapId /\ slotValues' = slotValues)]_vars

\* A set was applied that found an entry identical to its value.
C6_Witness == hist.op = "set" /\ hist.had /\ hist.same

\* C7 (Removal idempotence): applying remove(n) for a name n that was never
\* set leaves the mapping instance the very same object.
C7_RemovalIdempotence ==
  [][(/\ Applying
      /\ Head(queue).op = "remove"
      /\ Head(queue).name \notin DOMAIN slotValues)
     => (mapId' = mapId /\ slotValues' = slotValues)]_vars

\* C8 (Lifecycle cleanup): once the commit that unmounts a Slot named n is
\* done and no Slot named n is left, the registry has no entry for n and a
\* TemplateSlot for n emits its default content again.
C8_LifecycleCleanup ==
  (Committed /\ hist.act = "render") =>
    \A n \in hist.torn :
      (\A w \in Writers : ~(wr[w].mounted /\ wr[w].name = n))
      => /\ n \notin DOMAIN slotValues
         /\ \A d \in Defaults : TemplateSlot(ContextValue, n, d) = d

\* C9 (Independence): applying set(n, v) or remove(n) adds, removes and
\* changes no entry of another name m: m keeps its value reference.
C9_Independence ==
  [][Applying =>
       \A m \in Names \ {Head(queue).name} :
         /\ (m \in DOMAIN slotValues') = (m \in DOMAIN slotValues)
         /\ m \in DOMAIN slotValues => slotValues'[m] = slotValues[m]]_vars

\* An update that produced a new mapping was applied while another name had
\* an entry.
C9_Witness ==
  /\ hist.op \in {"set", "remove"}
  /\ ~hist.same
  /\ \E m \in DOMAIN slotValues : m # hist.name

\* C10 (Out-of-scope failure): a Slot, a TemplateSlot or a useSlotContext call
\* rendered under no SlotProvider throws the error that says it must be used
\* within a SlotProvider, and no registry is created or changed.
C10_OutOfScopeFailure ==
  [][hist'.act = "outside" =>
       /\ hist'.out = ConfigurationError
       /\ UNCHANGED <<scope, slotValues, mapId, phase, queue, wr>>]_vars

\* A TemplateSlot was rendered under no provider while a registry with an
\* entry exists.
C10_Witness ==
  /\ hist.act = "outside"
  /\ hist.comp = "TemplateSlot"
  /\ slotValues # EmptyObject

\* C11: in every committed state reached by Slot mounts, updates and
\* unmounts alone, a name has an entry in the mapping exactly when some
\* mounted Slot has that name.
C11_PresentIffLiveWriter ==
  Committed =>
    \A n \in Names :
      (n \in DOMAIN slotValues) = (\E w \in Writers : wr[w].mounted /\ wr[w].name = n)

LastCall(batch, n) ==
  LET at == {i \in 1..Len(batch) : batch[i].name = n}
  IN IF at = {} THEN 0 ELSE CHOOSE i \in at : \A j \in at : j <= i

C14_OnlyOwnSlotRerenders ==
  [][(Applying /\ scope' = "active" /\ slotValues' # slotValues) =>
       \A n \in Names \ {Head(queue).name} : ~ConsumerRerenders(n)]_vars

\* C15: the capability object the provider exposes has a function hasSlot,
\* and hasSlot(n) is true exactly when n is a key of the committed mapping.
C15_HasSlotExposed ==
  Committed =>
    /\ "hasSlot" \in DOMAIN ContextValue
    /\ isRenderProp(Prop(ContextValue, "hasSlot"))
    /\ \A n \in Names :
         LET has == Call(Prop(ContextValue, "hasSlot"), "hasSlot", Str(n))
         IN ~IsThrow(has) /\ (Truthy(has) = (n \in DOMAIN slotValues))

\* Writer w is rendered again with the name and the children it had.
SameProps(w) ==
  /\ wr[w].mounted /\ wr'[w].mounted
  /\ wr'[w].name = wr[w].name
  /\ wr'[w].children = wr[w].children

\* C16: a mounted Slot rendered again with the same name and the same
\* children reference keeps its memoized content and issues no set and no
\* remove; when no Slot of the tree changed, nothing is queued and the
\* mapping instance stays.
C16_UnchangedWriterSilent ==
  [][(phase = "idle" /\ hist'.act = "render") =>
       /\ \A w \in Writers :
            SameProps(w) => (wr'[w].memo = wr[w].memo /\ w \notin hist'.wrote)
       /\ Len(queue') =
            Cardinality(hist'.wrote) +
            Cardinality({w \in Writers : wr[w].mounted /\ ~SameProps(w)})
       /\ (\A w \in Writers : wr[w].mounted = wr'[w].mounted /\ (wr[w].mounted => SameProps(w)))
            => (queue' = <<>> /\ slotValues' = slotValues /\ mapId' = mapId)]_vars

C16_Witness ==
  /\ Committed
  /\ hist.act = "render"
  /\ hist.batch = <<>>
  /\ \E w \in Writers :
       /\ wr[w].mounted
       /\ isRenderProp(wr[w].children)
       /\ wr[w].name \in DOMAIN slotValues
       /\ slotValues[wr[w].name] = wr[w].memo

\* C17: after the commit of a render in which a Slot was mounted or given
\* another content reference (and no other Slot wrote the same name), the
\* lookup of its name is its new wrapped content, and a TemplateSlot of that
\* name emits that content.
C17_UpdateVisible ==
  (Committed /\ hist.act = "render") =>
    \A w \in hist.wrote :
      (\A v \in hist.wrote \ {w} : wr[v].name # wr[w].name) =>
        /\ JSGet(slotValues, wr[w].name) = wr[w].memo
        /\ \A d \in Defaults :
             TemplateSlot(ContextValue, wr[w].name, d) =
               IF isRenderProp(wr[w].memo) THEN Call(wr[w].memo, "slotContent", d)
               ELSE wr[w].memo

\* The state of the pair (registry, n): Unset, or Set with the stored value.
PairState(n) ==
  IF n \in DOMAIN slotValues THEN [set |-> TRUE, value |-> slotValues[n]]
  ELSE [set |-> FALSE, value |-> Undefined]

\* C18: every name starts Unset; while the provider lives, the state of a
\* name changes only when an update for that very name is applied: Unset to
\* Set(v) by set(v), Set(v) to Set(v') by set(v') with another reference,
\* Set(v) to Unset by remove; a TemplateSlot render queues nothing and makes
\* no mapping instance.
C18_PairStateMachine ==
  /\ \A n \in Names : ~PairState(n).set
  /\ [][\A n \in Names :
          /\ (scope' = "active" /\ PairState(n)' # PairState(n)) =>
               /\ Applying
               /\ Head(queue).name = n
               /\ \/ /\ ~PairState(n).set /\ PairState(n)'.set
                     /\ Head(queue).op = "set"
                     /\ PairState(n)'.value = Head(queue).value
                  \/ /\ PairState(n).set /\ PairState(n)'.set
                     /\ Head(queue).op = "set"
                     /\ PairState(n)'.value = Head(queue).value
                     /\ PairState(n)'.value # PairState(n).value
                  \/ /\ PairState(n).set /\ ~PairState(n)'.set
                     /\ Head(queue).op = "remove"
          /\ (phase = "idle" /\ hist'.act = "resolve") =>
               /\ queue' = queue /\ mapId' = mapId
               /\ scope' = "active" => PairState(n)' = PairState(n)]_vars

C18_Witness ==
  /\ Committed
  /\ hist.op = "remove"
  /\ hist.had
  /\ ~hist.same
  /\ ~PairState(hist.name).set
  /\ \E m \in Names : PairState(m).set

\* C19: each SlotProvider starts with its own empty mapping, and an update
\* issued under a provider changes the mapping of the nearest provider above
\* the caller and leaves the mapping of the other provider as it was.
C19_ScopeIsolation ==
  /\ slotValues = EmptyObject /\ ~other.active
  /\ [][/\ (~other.active /\ other'.active) =>
            (other'.slotValues = EmptyObject /\ slotValues' = slotValues /\ mapId' = mapId)
        /\ (slotValues' # slotValues \/ mapId' # mapId) =>
            /\ other' = other
            /\ Applying
            /\ hist.act = "scoped" => Nearest(hist.path) = "main"
        /\ (other.active /\ other'.active /\ other' # other) =>
            /\ hist'.act = "scoped" /\ Nearest(hist'.path) = "other"
            /\ slotValues' = slotValues /\ mapId' = mapId /\ queue' = queue
        /\ (phase = "idle" /\ hist'.act = "scoped") =>
            IF Nearest(hist'.path) = "other"
              THEN queue' = <<>> /\ slotValues' = slotValues /\ mapId' = mapId
            ELSE queue' = hist'.batch /\ other' = other]_vars

C19_Witness ==
  /\ Committed
  /\ other.active
  /\ hist.act = "scoped"
  /\ hist.path = <<"main", "other">>
  /\ other.slotValues # EmptyObject
  /\ slotValues # EmptyObject
  /\ DOMAIN other.slotValues # DOMAIN slotValues

\* C20: after the commit of a render that gave a mounted Slot another name
\* and the same children, the old name is no key of the mapping (unless
\* another Slot set it in that commit) and the lookup of the new name is the
\* Slot's content (unless another Slot set that name in that commit).
C20_Rename ==
  (Committed /\ hist.act = "render") =>
    \A m \in hist.moved :
      LET w == m[1]
          n1 == m[2]
          others == hist.wrote \ {w}
      IN /\ w \in hist.wrote
         /\ wr[w].name # n1
         /\ (\A v \in others : wr[v].name # n1) => n1 \notin DOMAIN slotValues
         /\ (\A v \in others : wr[v].name # wr[w].name) =>
              JSGet(slotValues, wr[w].name) = wr[w].memo

C20_Witness ==
  /\ Committed
  /\ hist.act = "render"
  /\ \E m \in hist.moved :
       /\ hist.wrote = {m[1]}
       /\ hist.batch = <<RemoveUpdate(m[2]), SetUpdate(wr[m[1]].name, wr[m[1]].memo)>>
       /\ wr[m[1]].name \in DOMAIN slotValues
       /\ m[2] \notin DOMAIN slotValues
       /\ \A v \in Writers \ {m[1]} : ~(wr[v].mounted /\ wr[v].name = m[2])

\* The last commit was the content update of the one Slot w: its cleanup
\* removed its name and its effect set the same name to its new content.
ContentUpdateOf(w) ==
  /\ hist.act = "render"
  /\ hist.wrote = {w}
  /\ hist.torn = {}
  /\ hist.batch = <<RemoveUpdate(wr[w].name), SetUpdate(wr[w].name, wr[w].memo)>>

\* C21: when one mounted Slot is given another content, the remove of its
\* cleanup and the set of its effect are applied in one commit, so in every
\* state in which a TemplateSlot can render afterwards the name is a key of
\* the mapping: no render pass finds it unset.
C21_NoUnsetGap ==
  Committed =>
    \A w \in Writers :
      ContentUpdateOf(w) => wr[w].name \in DOMAIN slotValues

\* A render issued by the host: of the tree of Slots or of a TemplateSlot.
HostStep == phase = "idle" /\ hist'.act \in {"render", "resolve"}

====
